---------------------------- MODULE Spec2Model ----------------------------
(***************************************************************************)
(* A model of web/js/aspectRatioResizer.js, the browser-side extension of  *)
(* the Aspect Ratio Resizer / Auto Megapixel Reducer custom nodes.         *)
(*                                                                         *)
(* The extension has two parts.  setup() registers two event listeners     *)
(* that format an event payload into a multi-line message and write to the *)
(* console.  beforeRegisterNodeDef() wraps the onNodeCreated hook of two   *)
(* node types so that every created node gets a title and two colours.     *)
(*                                                                         *)
(* JavaScript values are tagged records [t |-> type, v |-> payload].  In   *)
(* the listener part a string is the sequence of its characters, so that   *)
(* concatenation, equality and String.prototype.includes are the real      *)
(* operations.  A property that is absent from an object reads as          *)
(* Undefined, as a property access does in JavaScript.                     *)
(***************************************************************************)
EXTENDS Integers, Sequences, FiniteSets, TLC

VARIABLES
    listeners,   \* app.api: event type -> the listeners added, in order
    queue,       \* events the host has received and not yet dispatched
    console,     \* the console.log calls made so far, each its arguments
    deliveries,  \* one record per listener run: the event, what it built
    proto,       \* node type -> nodeType.prototype.onNodeCreated
    nodes,       \* the node instances of the graph
    registered,  \* the node definitions beforeRegisterNodeDef was called for
    lastCall     \* the last onNodeCreated invocation made by the host

vars ==
    <<listeners, queue, console, deliveries, proto, registered, nodes,
      lastCall>>
eventVars == <<listeners, queue, console, deliveries>>
nodeVars == <<proto, registered, nodes, lastCall>>

\* ------------------------------------------------------------------------
\* Bounds of the model.

\* The longest resize_info (images in one batch) the formatting runs draw.
MaxEntries == 2
\* The number of events the host emits in one run of the listeners.
MaxEvents == 2
\* The number of node instances the host creates.
MaxNodes == 1

\* ------------------------------------------------------------------------
\* JavaScript values.

Undefined == [t |-> "undefined", v |-> 0]
Null == [t |-> "null", v |-> 0]
Str(s) == [t |-> "string", v |-> s]
Bool(b) == [t |-> "boolean", v |-> b]
\* A number is held in eighths (v = 8 * value), which is exact in binary
\* floating point: 16 is 2, 66 is 8.25, 67 is 8.375.
Num(e) == [t |-> "number", v |-> e]
Arr(s) == [t |-> "array", v |-> s]
Obj(o) == [t |-> "object", v |-> o]

\* ------------------------------------------------------------------------
\* The string literals of the source, and of the payloads, as characters.

s_undefined ==
    << "u", "n", "d", "e", "f", "i", "n", "e", "d" >>
s_true ==
    << "t", "r", "u", "e" >>
s_false ==
    << "f", "a", "l", "s", "e" >>
s_unchanged ==
    << "u", "n", "c", "h", "a", "n", "g", "e", "d" >>
s_ARRTitle ==
    << "A", "s", "p", "e", "c", "t", " ", "R", "a", "t", "i", "o", " ", "R",
       "e", "s", "i", "z", "e", "r", " ", "R", "e", "s", "u", "l", "t", "s",
       ":", "\n" >>
s_Constraints ==
    << "C", "o", "n", "s", "t", "r", "a", "i", "n", "t", "s", ":", " " >>
s_ResizeMode ==
    << "R", "e", "s", "i", "z", "e", " ", "M", "o", "d", "e", ":", " " >>
s_WidthEnabled ==
    << "W", "i", "d", "t", "h", " ", "E", "n", "a", "b", "l", "e", "d", ":",
       " " >>
s_HeightEnabled ==
    << "H", "e", "i", "g", "h", "t", " ", "E", "n", "a", "b", "l", "e", "d",
       ":", " " >>
s_BatchSize ==
    << "B", "a", "t", "c", "h", " ", "S", "i", "z", "e", ":", " " >>
s_Image ==
    << "I", "m", "a", "g", "e", " " >>
s_Colon ==
    << ":", " " >>
s_Arrow ==
    << " ", "→", " " >>
s_ScaleOpen ==
    << " ", "(", "s", "c", "a", "l", "e", ":", " " >>
s_ParenClose ==
    << ")" >>
s_BracketOpen ==
    << " ", "[" >>
s_BracketClose ==
    << "]" >>
s_AMRTitle ==
    << "A", "u", "t", "o", " ", "M", "e", "g", "a", "p", "i", "x", "e", "l",
       " ", "R", "e", "d", "u", "c", "e", "r", " ", "R", "e", "s", "u", "l",
       "t", "s", ":", "\n" >>
s_Target ==
    << "T", "a", "r", "g", "e", "t", ":", " " >>
s_MP ==
    << "M", "P", "\n" >>
s_Original ==
    << "O", "r", "i", "g", "i", "n", "a", "l", ":", " " >>
s_OnlyReduce ==
    << "O", "n", "l", "y", " ", "R", "e", "d", "u", "c", "e", " ", "M", "o",
       "d", "e", ":", " " >>
s_ParenOpen ==
    << " ", "(" >>
s_ScaleBracket ==
    << ")", " ", "[", "s", "c", "a", "l", "e", ":", " " >>
s_ARRLabel ==
    << "A", "s", "p", "e", "c", "t", " ", "R", "a", "t", "i", "o", " ", "R",
       "e", "s", "i", "z", "e", "r", ":" >>
s_AMRLabel ==
    << "A", "u", "t", "o", " ", "M", "e", "g", "a", "p", "i", "x", "e", "l",
       " ", "R", "e", "d", "u", "c", "e", "r", ":" >>
s_width ==
    << "w", "i", "d", "t", "h" >>
s_downscale_only ==
    << "d", "o", "w", "n", "s", "c", "a", "l", "e", "_", "o", "n", "l", "y" >>
s_1920x1080 ==
    << "1", "9", "2", "0", "x", "1", "0", "8", "0" >>
s_1024x576 ==
    << "1", "0", "2", "4", "x", "5", "7", "6" >>
s_64x64 ==
    << "6", "4", "x", "6", "4" >>
s_0_533 ==
    << "0", ".", "5", "3", "3" >>
s_unchanged_fits ==
    << "u", "n", "c", "h", "a", "n", "g", "e", "d", " ", "(", "f", "i", "t",
       "s", ")" >>
s_0_59MP ==
    << "0", ".", "5", "9", "M", "P" >>
s_ARRNodeTitle ==
    << "A", "s", "p", "e", "c", "t", " ", "R", "a", "t", "i", "o", " ", "R",
       "e", "s", "i", "z", "e", "r" >>
s_ARRColor ==
    << "#", "2", "a", "4", "d", "3", "a" >>
s_ARRBgcolor ==
    << "#", "3", "3", "5", "5", "4", "4" >>
s_AMRNodeTitle ==
    << "A", "u", "t", "o", " ", "M", "e", "g", "a", "p", "i", "x", "e", "l",
       " ", "R", "e", "d", "u", "c", "e", "r" >>
s_AMRColor ==
    << "#", "4", "d", "2", "a", "3", "a" >>
s_AMRBgcolor ==
    << "#", "5", "5", "3", "3", "4", "4" >>
s_HostTitle ==
    << "N", "o", "d", "e" >>
s_HostColor ==
    << "#", "2", "2", "2" >>
s_HostBgcolor ==
    << "#", "3", "5", "3", "5", "3", "5" >>
s_ExampleLine ==
    << "I", "m", "a", "g", "e", " ", "1", ":", " ", "1", "9", "2", "0", "x",
       "1", "0", "8", "0", " ", "→", " ", "1", "0", "2", "4", "x", "5", "7",
       "6", " ", "(", "s", "c", "a", "l", "e", ":", " ", "0", ".", "5", "3",
       "3", ")" >>

\* ------------------------------------------------------------------------
\* String operations of the JavaScript runtime the handlers use.

Digit(d) == <<"0", "1", "2", "3", "4", "5", "6", "7", "8", "9">>[d + 1]

RECURSIVE IntToString(_)
IntToString(n) ==
    IF n < 10 THEN <<Digit(n)>>
    ELSE IntToString(n \div 10) \o <<Digit(n % 10)>>

RECURSIVE StripZeros(_)
StripZeros(s) ==
    IF s # <<>> /\ s[Len(s)] = "0" THEN StripZeros(SubSeq(s, 1, Len(s) - 1))
    ELSE s

\* Number::toString of a non-negative number held in eighths: the integer
\* part, then the fraction (thousandths) without its trailing zeros.
NumberToString(e) ==
    LET thousandths == (e % 8) * 125
        frac == StripZeros(<<Digit(thousandths \div 100),
                             Digit((thousandths \div 10) % 10),
                             Digit(thousandths % 10)>>)
    IN  IntToString(e \div 8) \o (IF frac = <<>> THEN <<>> ELSE <<".">> \o frac)

\* Number.prototype.toFixed(2): the nearest number of hundredths, the larger
\* one of two equally near.
toFixed2(e) ==
    LET n == (e * 100 + 4) \div 8
    IN  IntToString(n \div 100) \o <<".", Digit((n \div 10) % 10), Digit(n % 10)>>

\* ${v} in a template literal: ToString(v).
TemplateString(v) ==
    CASE v.t = "string" -> v.v
      [] v.t = "boolean" -> IF v.v THEN s_true ELSE s_false
      [] v.t = "number" -> NumberToString(v.v)
      [] v.t = "undefined" -> s_undefined

\* A variant of Truthy that asks whether the value is there at all, as
\* `info.constraint !== undefined` would.
Truthy_defined(v) == v.t # "undefined"

\* ToBoolean(v), as the condition of an if statement applies it.
Truthy(v) ==
    CASE v.t = "string" -> v.v # <<>>
      [] v.t = "boolean" -> v.v
      [] v.t = "number" -> v.v # 0
      [] v.t = "undefined" -> FALSE

\* String.prototype.includes
Includes(s, sub) ==
    \E i \in 0..(Len(s) - Len(sub)) : SubSeq(s, i + 1, i + Len(sub)) = sub

\* ------------------------------------------------------------------------
\* resizeInfoHandler

\* A variant of resizeInfoLine that numbers the lines by index, from 0.
resizeInfoLine_zeroBased(info, index) ==
    LET line == s_Image \o IntToString(index) \o s_Colon
                \o TemplateString(info.original) \o s_Arrow
                \o TemplateString(info.new) \o s_ScaleOpen
                \o TemplateString(info.scale) \o s_ParenClose
    IN  IF info.constraint.t = "string" /\ info.constraint.v # <<>>
        THEN line \o s_BracketOpen \o TemplateString(info.constraint)
                  \o s_BracketClose
        ELSE line

\* The callback of data.resize_info.forEach: the line of one image.  index
\* counts from 0, as forEach passes it.
resizeInfoLine(info, index) ==
    LET line == s_Image \o IntToString(index + 1) \o s_Colon
                \o TemplateString(info.original) \o s_Arrow
                \o TemplateString(info.new) \o s_ScaleOpen
                \o TemplateString(info.scale) \o s_ParenClose
    IN  IF Truthy(info.constraint)
        THEN line \o s_BracketOpen \o TemplateString(info.constraint)
                  \o s_BracketClose
        ELSE line

\* data.resize_info.forEach(...): the lines of the entries from index on,
\* each followed by '\n', in the order of the array.
RECURSIVE resizeInfoLines(_, _)
resizeInfoLines(infos, index) ==
    IF infos = <<>> THEN <<>>
    ELSE resizeInfoLine(Head(infos), index) \o <<"\n">>
         \o resizeInfoLines(Tail(infos), index + 1)

resizeInfoHeader(data) ==
    s_ARRTitle
    \o s_Constraints \o TemplateString(data.constraints) \o <<"\n">>
    \o s_ResizeMode \o TemplateString(data.resize_mode) \o <<"\n">>
    \o s_WidthEnabled \o TemplateString(data.enable_width) \o <<"\n">>
    \o s_HeightEnabled \o TemplateString(data.enable_height) \o <<"\n">>
    \o s_BatchSize \o TemplateString(data.batch_size) \o <<"\n", "\n">>

\* A variant of isResized that takes an entry without a string new for
\* unchanged, as `info.new?.includes` would.
isResized_guarded(info) ==
    IF /\ info.new.t = "string"
       /\ info.new.v # s_unchanged /\ ~Includes(info.new.v, s_unchanged)
    THEN "true" ELSE "false"

\* The callback of data.resize_info.some, the same in both handlers:
\* info.new !== "unchanged" && !info.new.includes("unchanged").  A new that
\* is no string differs from "unchanged" and has no includes method, so the
\* call throws a TypeError.
isResized(info) ==
    IF info.new.t = "string"
    THEN IF info.new.v # s_unchanged /\ ~Includes(info.new.v, s_unchanged)
         THEN "true" ELSE "false"
    ELSE "TypeError"

\* A variant of someResized that is Array.prototype.every: all entries must
\* pass.
RECURSIVE someResized_every(_)
someResized_every(infos) ==
    IF infos = <<>> THEN "true"
    ELSE LET r == isResized(Head(infos))
         IN  IF r = "true" THEN someResized_every(Tail(infos)) ELSE r

\* Array.prototype.some: the entries are tested in order, and the scan stops
\* at the first one that passes (or throws).
RECURSIVE someResized(_)
someResized(infos) ==
    IF infos = <<>> THEN "false"
    ELSE LET r == isResized(Head(infos))
         IN  IF r = "false" THEN someResized(Tail(infos)) ELSE r

\* A variant of logResults that logs the message whatever the entries say.
logResults_always(label, data, message) ==
    [message |-> message,
     logs |-> <<<<Str(label), Obj(data)>>, <<Str(message)>>>>,
     threw |-> FALSE]

\* A variant of logResults that tests the entries and logs the message
\* before it logs the raw object.
logResults_messageFirst(label, data, message) ==
    LET raw == <<Str(label), Obj(data)>>
        some == someResized(data.resize_info.v)
    IN  CASE some = "true" ->
               [message |-> message, logs |-> <<<<Str(message)>>, raw>>,
                threw |-> FALSE]
          [] some = "false" ->
               [message |-> message, logs |-> <<raw>>, threw |-> FALSE]
          [] some = "TypeError" ->
               [message |-> message, logs |-> <<>>, threw |-> TRUE]

\* The statements after the message is built, the same in both handlers:
\* console.log(label, data), then console.log(message) if some entry was
\* resized.
logResults(label, data, message) ==
    LET raw == <<Str(label), Obj(data)>>
        some == someResized(data.resize_info.v)
    IN  CASE some = "true" ->
               [message |-> message, logs |-> <<raw, <<Str(message)>>>>,
                threw |-> FALSE]
          [] some = "false" ->
               [message |-> message, logs |-> <<raw>>, threw |-> FALSE]
          [] some = "TypeError" ->
               [message |-> message, logs |-> <<raw>>, threw |-> TRUE]

\* One run of resizeInfoHandler: the message it built, the console.log calls
\* it made, and whether it ended by throwing.  Reading forEach of a
\* resize_info that is not an array throws before anything is logged.
resizeInfoHandler(event) ==
    LET data == event.detail
        header == resizeInfoHeader(data)
    IN  IF data.resize_info.t # "array"
        THEN [message |-> header, logs |-> <<>>, threw |-> TRUE]
        ELSE logResults(s_ARRLabel, data,
                        header \o resizeInfoLines(data.resize_info.v, 0))

\* ------------------------------------------------------------------------
\* megapixelReducerHandler

megapixelLine(info, index) ==
    s_Image \o IntToString(index + 1) \o s_Colon
    \o TemplateString(info.original) \o s_Arrow \o TemplateString(info.new)
    \o s_ParenOpen \o TemplateString(info.megapixels) \o s_ScaleBracket
    \o TemplateString(info.scale) \o s_BracketClose

RECURSIVE megapixelLines(_, _)
megapixelLines(infos, index) ==
    IF infos = <<>> THEN <<>>
    ELSE megapixelLine(Head(infos), index) \o <<"\n">>
         \o megapixelLines(Tail(infos), index + 1)

\* One run of megapixelReducerHandler.  toFixed of an original_megapixels
\* that is no number throws while the message is being built.
megapixelReducerHandler(event) ==
    LET data == event.detail
        target == s_AMRTitle
                  \o s_Target \o TemplateString(data.max_megapixels) \o s_MP
    IN  IF data.original_megapixels.t # "number"
        THEN [message |-> target, logs |-> <<>>, threw |-> TRUE]
        ELSE LET header ==
                   target
                   \o s_Original \o toFixed2(data.original_megapixels.v) \o s_MP
                   \o s_OnlyReduce \o TemplateString(data.only_reduce)
                   \o <<"\n">>
                   \o s_BatchSize \o TemplateString(data.batch_size)
                   \o <<"\n", "\n">>
             IN  IF data.resize_info.t # "array"
                 THEN [message |-> header, logs |-> <<>>, threw |-> TRUE]
                 ELSE logResults(s_AMRLabel, data,
                          header \o megapixelLines(data.resize_info.v, 0))

\* ------------------------------------------------------------------------
\* The events the host delivers.

ResizeInfoType == "aspectratioresizer.resize_info"
MegapixelType == "automegapixelreducer.resize_info"
EventTypes == {ResizeInfoType, MegapixelType}

SeqsUpTo(S, n) == UNION {[1..k -> S] : k \in 0..n}

\* The values of an entry's new field: resized, unchanged, and a text that
\* only contains the word.
NewValues == {Str(s_1024x576), Str(s_unchanged), Str(s_unchanged_fits)}

\* Entries of a ResizeInfoEvent.  constraint is optional: absent (Undefined),
\* the empty string, or the name of the constraint.
ResizeEntries ==
    {[original |-> Str(s_1920x1080), new |-> n, scale |-> Str(s_0_533),
      constraint |-> c] : n \in NewValues, c \in {Undefined, Str(<<>>), Str(s_width)}}
    \cup {[original |-> Str(s_64x64), new |-> Str(s_unchanged),
           scale |-> Str(s_0_533), constraint |-> Undefined]}

\* Entries with one field missing.
PartialResizeEntries ==
    {[original |-> Undefined, new |-> Str(s_1024x576), scale |-> Str(s_0_533),
      constraint |-> Undefined],
     [original |-> Str(s_1920x1080), new |-> Undefined, scale |-> Str(s_0_533),
      constraint |-> Str(s_width)],
     [original |-> Str(s_64x64), new |-> Str(s_unchanged), scale |-> Undefined,
      constraint |-> Undefined]}

ResizeDetail(w, infos) ==
    [constraints |-> Str(s_width), resize_mode |-> Str(s_downscale_only),
     enable_width |-> Bool(w), enable_height |-> Bool(~w),
     batch_size |-> Num(8 * Len(infos)), resize_info |-> Arr(infos)]

ResizeFields ==
    {"constraints", "resize_mode", "enable_width", "enable_height",
     "batch_size", "resize_info"}

\* Entries of a MegapixelReducerEvent.
MegapixelEntries ==
    {[original |-> Str(o), new |-> n, megapixels |-> Str(s_0_59MP),
      scale |-> Str(s_0_533)] : o \in {s_1920x1080, s_64x64}, n \in NewValues}

PartialMegapixelEntries ==
    {[original |-> Str(s_1920x1080), new |-> Undefined,
      megapixels |-> Str(s_0_59MP), scale |-> Str(s_0_533)],
     [original |-> Undefined, new |-> Str(s_unchanged),
      megapixels |-> Undefined, scale |-> Undefined]}

MegapixelDetail(mp, infos) ==
    [max_megapixels |-> Num(16), original_megapixels |-> Num(mp),
     only_reduce |-> Bool(TRUE), batch_size |-> Num(8 * Len(infos)),
     resize_info |-> Arr(infos)]

MegapixelFields ==
    {"max_megapixels", "original_megapixels", "only_reduce", "batch_size",
     "resize_info"}

\* The spec's example payload, and the same batch left unchanged.
ExampleEntry ==
    [original |-> Str(s_1920x1080), new |-> Str(s_1024x576),
     scale |-> Str(s_0_533), constraint |-> Undefined]
UnchangedEntry ==
    [original |-> Str(s_64x64), new |-> Str(s_unchanged),
     scale |-> Str(s_0_533), constraint |-> Undefined]

\* Payloads with one field of the object missing.
PartialResizeDetails ==
    {[ResizeDetail(TRUE, infos) EXCEPT ![f] = Undefined] :
        infos \in {<<>>, <<ExampleEntry>>, <<UnchangedEntry>>},
        f \in ResizeFields}
PartialMegapixelDetails ==
    {[MegapixelDetail(66, infos) EXCEPT ![f] = Undefined] :
        infos \in SeqsUpTo(MegapixelEntries, 1), f \in MegapixelFields}

\* The events one formatting run draws its input from: every payload with
\* up to MaxEntries entries, complete or with a field missing.
FormatEvents ==
    {[type |-> ResizeInfoType, detail |-> d] :
        d \in {ResizeDetail(w, infos) : w \in BOOLEAN,
               infos \in SeqsUpTo(ResizeEntries \cup PartialResizeEntries,
                                  MaxEntries)}
              \cup PartialResizeDetails}
    \cup
    {[type |-> MegapixelType, detail |-> d] :
        d \in {MegapixelDetail(mp, infos) : mp \in {66, 67},
               infos \in SeqsUpTo(MegapixelEntries \cup PartialMegapixelEntries,
                                  MaxEntries)}
              \cup PartialMegapixelDetails}

\* The events the host emits while the listeners run one after another.
StreamEvents ==
    {[type |-> ResizeInfoType, detail |-> d] :
        d \in {ResizeDetail(TRUE, infos) :
                 infos \in {<<>>, <<ExampleEntry>>, <<UnchangedEntry>>,
                            <<UnchangedEntry, ExampleEntry>>}}
              \cup {[ResizeDetail(TRUE, <<>>) EXCEPT !.resize_info = Undefined]}}
    \cup
    {[type |-> MegapixelType, detail |-> d] :
        d \in {MegapixelDetail(67, infos) :
                 infos \in SeqsUpTo({e \in MegapixelEntries :
                                        e.original.v = s_1920x1080}, 1)}
              \cup {[MegapixelDetail(67, <<>>)
                        EXCEPT !.original_megapixels = Undefined]}}

\* ------------------------------------------------------------------------
\* The listeners.

NoListeners == [ty \in EventTypes |-> <<>>]

\* The state once setup() has run.
Registered ==
    [ty \in EventTypes |->
        IF ty = ResizeInfoType THEN <<"resizeInfoHandler">>
        ELSE <<"megapixelReducerHandler">>]

runHandler(handler, event) ==
    IF handler = "resizeInfoHandler" THEN resizeInfoHandler(event)
    ELSE megapixelReducerHandler(event)

\* EventTarget.dispatchEvent: the listeners of the event's type run in the
\* order they were added, each to completion.  out holds the console and
\* the deliveries so far.
RECURSIVE dispatchEvent(_, _, _)
dispatchEvent(handlers, event, out) ==
    IF handlers = <<>> THEN out
    ELSE LET r == runHandler(Head(handlers), event)
         IN  dispatchEvent(Tail(handlers), event,
                 [console |-> out.console \o r.logs,
                  deliveries |->
                      Append(out.deliveries,
                             [event |-> event, handler |-> Head(handlers),
                              first |-> Len(out.console) + 1,
                              count |-> Len(r.logs), message |-> r.message,
                              threw |-> r.threw])])

\* setup(): the host calls it once, when the extension is loaded.
setup ==
    /\ listeners = NoListeners
    /\ listeners' =
           [ty \in EventTypes |->
               IF ty = ResizeInfoType
               THEN Append(listeners[ty], "resizeInfoHandler")
               ELSE Append(listeners[ty], "megapixelReducerHandler")]
    /\ UNCHANGED <<queue, console, deliveries, nodeVars>>

\* The host receives a message from the backend and queues its event.
HostEmit ==
    /\ Len(queue) + Len(deliveries) < MaxEvents
    /\ \E event \in StreamEvents : queue' = Append(queue, event)
    /\ UNCHANGED <<listeners, console, deliveries, nodeVars>>

\* The host dispatches the oldest queued event to its listeners.
Deliver ==
    /\ queue # <<>>
    /\ LET out == dispatchEvent(listeners[Head(queue).type], Head(queue),
                                [console |-> console, deliveries |-> deliveries])
       IN  /\ console' = out.console
           /\ deliveries' = out.deliveries
    /\ queue' = Tail(queue)
    /\ UNCHANGED <<listeners, nodeVars>>

\* ------------------------------------------------------------------------
\* The node types and their onNodeCreated hooks.

\* nodeData.name of the node definitions the host registers: the two this
\* extension decorates, and one of another extension.
NodeTypes == {"AspectRatioResizer", "AutoMegapixelReducer", "KSampler"}

\* A function the host defined on a prototype before the extension saw it.
HostFunction == [t |-> "function", v |-> [kind |-> "host"]]
\* A value that is neither nullish nor callable.
NotCallable == Num(8)

\* What nodeType.prototype.onNodeCreated may hold when the host hands the
\* node type to beforeRegisterNodeDef.
HostHooks == {Undefined, Null, HostFunction, NotCallable}

\* The function expression beforeRegisterNodeDef assigns for the node type
\* `name`; its closure holds the hook that was there, onNodeCreated.
Wrapper(name, onNodeCreated) ==
    [t |-> "function",
     v |-> [kind |-> "wrapper", name |-> name, onNodeCreated |-> onNodeCreated]]

\* The argument lists the host passes to onNodeCreated.
ArgumentLists == {<<>>, <<Str(s_width)>>}

FreshNode(type) ==
    [type |-> type, title |-> Str(s_HostTitle), color |-> Undefined,
     bgcolor |-> Undefined]

\* The host's own hook: it styles the node its receiver names and returns
\* its first argument, or true when called without one.
callHostFunction(self, arguments, ns) ==
    [nodes |-> [ns EXCEPT ![self].title = Str(s_HostTitle),
                          ![self].color = Str(s_HostColor),
                          ![self].bgcolor = Str(s_HostBgcolor)],
     result |-> IF arguments = <<>> THEN Bool(TRUE) ELSE arguments[1],
     threw |-> FALSE]

\* The assignments of the wrapper of AspectRatioResizer to this.
decorateResizer(self, ns) ==
    [ns EXCEPT ![self].title = Str(s_ARRNodeTitle),
               ![self].color = Str(s_ARRColor),
               ![self].bgcolor = Str(s_ARRBgcolor)]

\* The assignments of the wrapper of AutoMegapixelReducer to this.
decorateReducer(self, ns) ==
    [ns EXCEPT ![self].title = Str(s_AMRNodeTitle),
               ![self].color = Str(s_AMRColor),
               ![self].bgcolor = Str(s_AMRBgcolor)]

\* A variant of optionalApply that never calls the hook that was there.
optionalApply_unchained(onNodeCreated) ==
    CASE onNodeCreated.t \in {"undefined", "null", "function"} -> "skip"
      [] OTHER -> "TypeError"

\* A variant of optionalApply that skips whatever is not a function, as a
\* typeof check would.
optionalApply_typeofGuard(onNodeCreated) ==
    IF onNodeCreated.t = "function" THEN "call" ELSE "skip"

\* onNodeCreated?.apply(this, arguments) for the captured onNodeCreated:
\* "skip" when it is undefined or null, "call" when it is a function, and
\* "TypeError" otherwise (apply of such a value is undefined, and is called).
optionalApply(onNodeCreated) ==
    CASE onNodeCreated.t \in {"undefined", "null"} -> "skip"
      [] onNodeCreated.t = "function" -> "call"
      [] OTHER -> "TypeError"

\* The record of one function call: the function, its receiver, its
\* arguments, and how it ended.
Call(f, self, arguments, result, threw) ==
    [fn |-> f, this |-> self, arguments |-> arguments, result |-> result,
     threw |-> threw]

RECURSIVE callFunction(_, _, _, _)

\* A variant of callFunction whose wrapper assigns the title and colours
\* first and calls the hook that was there afterwards.
callFunction_decorateFirst(f, self, arguments, ns) ==
    IF f.v.kind = "host"
    THEN LET r == callHostFunction(self, arguments, ns)
         IN  [nodes |-> r.nodes, result |-> r.result, threw |-> r.threw,
              calls |-> <<Call(f, self, arguments, r.result, r.threw)>>]
    ELSE LET how == optionalApply(f.v.onNodeCreated)
             styled == IF f.v.name = "AspectRatioResizer"
                       THEN decorateResizer(self, ns)
                       ELSE decorateReducer(self, ns)
             inner ==
                 CASE how = "skip" ->
                        [nodes |-> styled, result |-> Undefined,
                         threw |-> FALSE, calls |-> <<>>]
                   [] how = "call" ->
                        callFunction(f.v.onNodeCreated, self, arguments, styled)
                   [] how = "TypeError" ->
                        [nodes |-> styled, result |-> Undefined,
                         threw |-> TRUE, calls |-> <<>>]
         IN  [nodes |-> inner.nodes,
              result |-> IF inner.threw THEN Undefined ELSE inner.result,
              threw |-> inner.threw,
              calls |-> <<Call(f, self, arguments,
                               IF inner.threw THEN Undefined ELSE inner.result,
                               inner.threw)>> \o inner.calls]

\* A call of the function f with receiver self (an index of ns) and the
\* given arguments: the nodes after it, its result, whether it threw, and
\* the calls made, f's own first.
callFunction(f, self, arguments, ns) ==
    IF f.v.kind = "host"
    THEN LET r == callHostFunction(self, arguments, ns)
         IN  [nodes |-> r.nodes, result |-> r.result, threw |-> r.threw,
              calls |-> <<Call(f, self, arguments, r.result, r.threw)>>]
    ELSE LET how == optionalApply(f.v.onNodeCreated)
             inner ==
                 CASE how = "skip" ->
                        [nodes |-> ns, result |-> Undefined, threw |-> FALSE,
                         calls |-> <<>>]
                   [] how = "call" ->
                        callFunction(f.v.onNodeCreated, self, arguments, ns)
                   [] how = "TypeError" ->
                        [nodes |-> ns, result |-> Undefined, threw |-> TRUE,
                         calls |-> <<>>]
         IN  IF inner.threw
             THEN [nodes |-> inner.nodes, result |-> Undefined, threw |-> TRUE,
                   calls |-> <<Call(f, self, arguments, Undefined, TRUE)>>
                             \o inner.calls]
             ELSE [nodes |-> IF f.v.name = "AspectRatioResizer"
                             THEN decorateResizer(self, inner.nodes)
                             ELSE decorateReducer(self, inner.nodes),
                   result |-> inner.result, threw |-> FALSE,
                   calls |-> <<Call(f, self, arguments, inner.result, FALSE)>>
                             \o inner.calls]

\* A variant of registeredHook whose second block does not test the name.
registeredHook_unguarded(name, hook) ==
    LET first == IF name = "AspectRatioResizer"
                 THEN Wrapper("AspectRatioResizer", hook) ELSE hook
    IN  Wrapper("AutoMegapixelReducer", first)

\* nodeType.prototype.onNodeCreated after beforeRegisterNodeDef(nodeType,
\* nodeData) with nodeData.name = name, when it held hook before.
registeredHook(name, hook) ==
    LET first == IF name = "AspectRatioResizer"
                 THEN Wrapper("AspectRatioResizer", hook) ELSE hook
    IN  IF name = "AutoMegapixelReducer"
        THEN Wrapper("AutoMegapixelReducer", first) ELSE first

NoCall ==
    [node |-> 0, hook |-> Undefined, arguments |-> <<>>, before |-> <<>>,
     result |-> Undefined, threw |-> FALSE, calls |-> <<>>]

\* The host registers a node definition, once each, and gives the extension
\* its node type first.
beforeRegisterNodeDef ==
    \E name \in NodeTypes :
        /\ name \notin registered
        /\ registered' = registered \cup {name}
        /\ proto' = [proto EXCEPT ![name] = registeredHook(name, @)]
        /\ UNCHANGED <<nodes, lastCall, eventVars>>

\* The host creates a node of a type.
CreateNode ==
    \E type \in NodeTypes :
        /\ Len(nodes) < MaxNodes
        /\ nodes' = Append(nodes, FreshNode(type))
        /\ UNCHANGED <<proto, registered, lastCall, eventVars>>

\* The host calls node.onNodeCreated(...) on a node whose type has one.
InvokeOnNodeCreated ==
    \E self \in 1..Len(nodes), arguments \in ArgumentLists :
        LET hook == proto[nodes[self].type]
        IN  /\ hook.t = "function"
            /\ LET r == callFunction(hook, self, arguments, nodes)
               IN  /\ nodes' = r.nodes
                   /\ lastCall' =
                          [node |-> self, hook |-> hook,
                           arguments |-> arguments, before |-> nodes,
                           result |-> r.result, threw |-> r.threw,
                           calls |-> r.calls]
            /\ UNCHANGED <<proto, registered, eventVars>>

\* ------------------------------------------------------------------------
\* The specifications.

Init ==
    /\ listeners = NoListeners
    /\ queue = <<>>
    /\ console = <<>>
    /\ deliveries = <<>>
    /\ proto \in [NodeTypes -> HostHooks]
    /\ registered = {}
    /\ nodes = <<>>
    /\ lastCall = NoCall

ListenerNext == setup \/ HostEmit \/ Deliver
NodeNext == beforeRegisterNodeDef \/ CreateNode \/ InvokeOnNodeCreated
Next == ListenerNext \/ NodeNext

\* The extension in its host.
Spec == Init /\ [][Next]_vars

\* The two halves of the extension share no variable, so a behaviour of Spec
\* is an interleaving of one behaviour of each of these.
ListenerInit == Init /\ proto = [name \in NodeTypes |-> Undefined]
ListenerSpec == ListenerInit /\ [][ListenerNext]_vars
NodeSpec == Init /\ [][NodeNext]_vars

\* One run of a listener on one event: the input is drawn by the initial
\* state, with the listeners registered, and Deliver applies the handler.
FormatInit ==
    /\ listeners = Registered
    /\ queue \in {<<event>> : event \in FormatEvents}
    /\ console = <<>>
    /\ deliveries = <<>>
    /\ proto = [name \in NodeTypes |-> Undefined]
    /\ registered = {}
    /\ nodes = <<>>
    /\ lastCall = NoCall

FormatSpec == FormatInit /\ [][Deliver]_vars

\* ------------------------------------------------------------------------
\* What the properties below read from a message and a payload.

IsPrefix(p, s) == Len(p) <= Len(s) /\ SubSeq(s, 1, Len(p)) = p

\* The lines of a text: the pieces its line breaks end, and what follows the
\* last line break if anything does.
RECURSIVE LinesOf(_)
LinesOf(s) ==
    IF s = <<>> THEN <<>>
    ELSE IF \A i \in 1..Len(s) : s[i] # "\n" THEN <<s>>
    ELSE LET p == CHOOSE i \in 1..Len(s) :
                      s[i] = "\n" /\ \A j \in 1..(i - 1) : s[j] # "\n"
         IN  <<SubSeq(s, 1, p - 1)>> \o LinesOf(SubSeq(s, p + 1, Len(s)))

IsImageLine(l) == IsPrefix(<<"I", "m", "a", "g", "e", " ">>, l)
ImageLines(message) == SelectSeq(LinesOf(message), IsImageLine)

\* The decimal numeral of a line number.
Numeral(k) ==
    <<<<"1">>, <<"2">>, <<"3">>, <<"4">>, <<"5">>, <<"6">>, <<"7">>, <<"8">>,
      <<"9">>>>[k]

IsString(v) == v.t = "string"

\* A payload of the shape the data model gives: every field present and of
\* its type, constraint alone optional.
WellFormedResize(data) ==
    /\ IsString(data.constraints) /\ IsString(data.resize_mode)
    /\ data.enable_width.t = "boolean" /\ data.enable_height.t = "boolean"
    /\ data.batch_size.t = "number"
    /\ data.resize_info.t = "array"
    /\ \A k \in 1..Len(data.resize_info.v) :
           LET info == data.resize_info.v[k]
           IN  /\ IsString(info.original) /\ IsString(info.new)
               /\ IsString(info.scale)
               /\ info.constraint.t \in {"string", "undefined"}

WellFormedMegapixel(data) ==
    /\ data.max_megapixels.t = "number"
    /\ data.original_megapixels.t = "number"
    /\ data.only_reduce.t = "boolean"
    /\ data.batch_size.t = "number"
    /\ data.resize_info.t = "array"
    /\ \A k \in 1..Len(data.resize_info.v) :
           LET info == data.resize_info.v[k]
           IN  /\ IsString(info.original) /\ IsString(info.new)
               /\ IsString(info.megapixels) /\ IsString(info.scale)

WellFormed(event) ==
    IF event.type = ResizeInfoType THEN WellFormedResize(event.detail)
    ELSE WellFormedMegapixel(event.detail)

\* The runs of resizeInfoHandler on a well-formed event.
ResizeRuns ==
    {i \in 1..Len(deliveries) :
        /\ deliveries[i].handler = "resizeInfoHandler"
        /\ WellFormed(deliveries[i].event)}

\* The runs of either handler on a well-formed event.
WellFormedRuns == {i \in 1..Len(deliveries) : WellFormed(deliveries[i].event)}

Infos(i) == deliveries[i].event.detail.resize_info.v

\* The run logged its message: the raw object first, then the message.
LoggedMessage(i) ==
    /\ deliveries[i].count = 2
    /\ console[deliveries[i].first + 1] = <<Str(deliveries[i].message)>>

\* The run logged the raw event object and nothing else.
LoggedRawOnly(i) ==
    LET d == deliveries[i]
    IN  /\ d.count = 1
        /\ console[d.first] =
               <<Str(IF d.handler = "resizeInfoHandler" THEN s_ARRLabel
                     ELSE s_AMRLabel), Obj(d.event.detail)>>

\* ------------------------------------------------------------------------
\* C1: for a well-formed ResizeInfoEvent with N entries the message built by
\* resizeInfoHandler has exactly N image lines, in the order of resize_info,
\* the k-th numbered "Image k" and carrying the k-th entry's original and new
\* values verbatim with the arrow between them.
C1_ImageLines ==
    \A i \in ResizeRuns :
        LET lines == ImageLines(deliveries[i].message)
        IN  /\ Len(lines) = Len(Infos(i))
            /\ \A k \in 1..Len(Infos(i)) :
                   IsPrefix(<<"I", "m", "a", "g", "e", " ">> \o Numeral(k)
                            \o <<":", " ">> \o Infos(i)[k].original.v
                            \o <<" ", "→", " ">> \o Infos(i)[k].new.v
                            \o <<" ">>,
                            lines[k])

\* A run on a batch of two images whose entries differ.
C1_Witness ==
    \E i \in ResizeRuns :
        /\ Len(Infos(i)) = 2
        /\ Infos(i)[1].original # Infos(i)[2].original
        /\ Infos(i)[1].new # Infos(i)[2].new
        /\ Len(ImageLines(deliveries[i].message)) = 2

\* The line of entry k as C7 describes it, with the bracket when `bracket`.
ExpectedLine(info, k, bracket) ==
    <<"I", "m", "a", "g", "e", " ">> \o Numeral(k) \o <<":", " ">>
    \o info.original.v \o <<" ", "→", " ">> \o info.new.v
    \o <<" ", "(", "s", "c", "a", "l", "e", ":", " ">> \o info.scale.v
    \o <<")">>
    \o (IF bracket THEN <<" ", "[">> \o info.constraint.v \o <<"]">>
        ELSE <<>>)

\* C7 as stated: each image line is 'Image k: <original> -> <new> (scale:
\* <scale>)', followed by ' [<constraint>]' if and only if the entry has a
\* constraint field.
C7_BracketIffPresent ==
    \A i \in ResizeRuns :
        \A k \in 1..Len(Infos(i)) :
            ImageLines(deliveries[i].message)[k] =
                ExpectedLine(Infos(i)[k], k, Infos(i)[k].constraint.t = "string")

\* C7 as the code has it: the bracket follows if and only if the constraint
\* field is present and not the empty string; and the example entry of the
\* spec yields the example line.
C7_BracketIffNonEmpty ==
    \A i \in ResizeRuns :
        /\ \A k \in 1..Len(Infos(i)) :
               ImageLines(deliveries[i].message)[k] =
                   ExpectedLine(Infos(i)[k], k,
                                /\ Infos(i)[k].constraint.t = "string"
                                /\ Infos(i)[k].constraint.v # <<>>)
        /\ Infos(i) = <<ExampleEntry>> =>
               ImageLines(deliveries[i].message) = <<s_ExampleLine>>

\* A run on a batch with an empty constraint and a named one, and a run on
\* the example.
C7_Witness ==
    \E i \in ResizeRuns :
        /\ Len(Infos(i)) = 2
        /\ Infos(i)[1].constraint = Str(<<>>)
        /\ Infos(i)[2].constraint = Str(s_width)
        /\ Len(ImageLines(deliveries[i].message)) = 2

\* ------------------------------------------------------------------------
\* C2 as stated: if at least one entry's new differs from "unchanged", the
\* handler (either one) logs the full formatted message, also when the new
\* values merely contain "unchanged".
C2_LoggedIfDiffers ==
    \A i \in WellFormedRuns :
        (\E k \in 1..Len(Infos(i)) : Infos(i)[k].new.v # s_unchanged)
            => LoggedMessage(i)

\* C2 as the code has it: if at least one entry's new does not contain
\* "unchanged", the handler (either one) logs the full formatted message,
\* one image line per entry, after the raw object.
C2_LoggedIfNotContains ==
    \A i \in WellFormedRuns :
        (\E k \in 1..Len(Infos(i)) :
             ~Includes(Infos(i)[k].new.v, s_unchanged))
            => /\ LoggedMessage(i)
               /\ Len(ImageLines(console[deliveries[i].first + 1][1].v))
                      = Len(Infos(i))

\* Each handler ran on a batch in which the resized image comes after one
\* whose new value only contains "unchanged".
C2_Witness ==
    \E i \in WellFormedRuns :
        /\ Len(Infos(i)) = 2
        /\ Infos(i)[1].new = Str(s_unchanged_fits)
        /\ Infos(i)[2].new = Str(s_1024x576)
        /\ LoggedMessage(i)

\* C3: if every entry's new equals "unchanged" (the empty resize_info
\* included), the handler (either one) logs the raw event object and never
\* the formatted message.
C3_RawOnlyIfUnchanged ==
    \A i \in WellFormedRuns :
        (\A k \in 1..Len(Infos(i)) : Infos(i)[k].new.v = s_unchanged)
            => /\ LoggedRawOnly(i)
               /\ \A j \in 1..Len(console) :
                      console[j] # <<Str(deliveries[i].message)>>

\* A run on a batch of two unchanged images.
C3_Witness ==
    \E i \in WellFormedRuns :
        /\ Len(Infos(i)) = 2
        /\ \A k \in 1..2 : Infos(i)[k].new = Str(s_unchanged)
        /\ Len(console) = 1

\* ------------------------------------------------------------------------
\* Malformed events.

MalformedRuns ==
    {i \in 1..Len(deliveries) : ~WellFormed(deliveries[i].event)}


\* The scan of resize_info reaches an entry without new: every entry before
\* it contains "unchanged".
ReachesMissingNew(infos) ==
    \E k \in 1..Len(infos) :
        /\ infos[k].new = Undefined
        /\ \A j \in 1..(k - 1) :
               /\ infos[j].new.t = "string"
               /\ Includes(infos[j].new.v, s_unchanged)

\* The text a field is rendered as.
Rendered(v) == IF v = Undefined THEN <<"u", "n", "d", "e", "f", "i", "n", "e", "d">>
               ELSE TemplateString(v)

\* The header lines of a message carry the missing scalar fields as
\* "undefined".
HeaderRendersMissing(d) ==
    LET data == d.event.detail
        lines == LinesOf(d.message)
        Has(label, field) ==
            data[field] = Undefined =>
                \E n \in 1..Len(lines) : lines[n] = label \o s_undefined
    IN  IF d.handler = "resizeInfoHandler"
        THEN /\ Has(s_Constraints, "constraints")
             /\ Has(s_ResizeMode, "resize_mode")
             /\ Has(s_WidthEnabled, "enable_width")
             /\ Has(s_HeightEnabled, "enable_height")
             /\ Has(s_BatchSize, "batch_size")
        ELSE /\ data.max_megapixels = Undefined =>
                    \E n \in 1..Len(lines) :
                        lines[n] = s_Target \o s_undefined \o <<"M", "P">>
             /\ Has(s_OnlyReduce, "only_reduce")
             /\ Has(s_BatchSize, "batch_size")

\* The image lines of a message carry the missing entry fields as
\* "undefined".
EntriesRenderMissing(d) ==
    LET infos == d.event.detail.resize_info.v
        lines == ImageLines(d.message)
    IN  /\ Len(lines) = Len(infos)
        /\ \A k \in 1..Len(infos) :
               LET info == infos[k]
                   start == <<"I", "m", "a", "g", "e", " ">> \o Numeral(k)
                            \o <<":", " ">> \o Rendered(info.original)
                            \o <<" ", "→", " ">> \o Rendered(info.new)
               IN  IF d.handler = "resizeInfoHandler"
                   THEN IsPrefix(start \o s_ScaleOpen \o Rendered(info.scale)
                                 \o <<")">>, lines[k])
                   ELSE lines[k] = start \o <<" ", "(">>
                                   \o Rendered(info.megapixels)
                                   \o s_ScaleBracket \o Rendered(info.scale)
                                   \o <<"]">>

\* C6 as stated: a handler run on a payload with a field missing (also
\* resize_info, an entry's new, or original_megapixels) ends without raising
\* an error, and each missing field is rendered as "undefined" or as empty
\* text.
C6_SilentlyMisrendered ==
    \A i \in MalformedRuns :
        /\ ~deliveries[i].threw
        /\ HeaderRendersMissing(deliveries[i])
        /\ EntriesRenderMissing(deliveries[i])

\* C6 as the code has it: a run on a payload with a field missing throws
\* exactly when resize_info is missing, when original_megapixels is missing
\* (megapixelReducerHandler), or when the scan reaches an entry without
\* new; in the first two cases before anything is logged, in the third
\* after the raw object is logged.  Otherwise the run ends without an
\* error, and each missing field is rendered as "undefined".
C6_ThrowsOrRendersUndefined ==
    \A i \in MalformedRuns :
        LET d == deliveries[i]
            data == d.event.detail
            early == \/ data.resize_info = Undefined
                     \/ /\ d.handler = "megapixelReducerHandler"
                        /\ data.original_megapixels = Undefined
        IN  /\ d.threw <=> (early \/ ReachesMissingNew(data.resize_info.v))
            /\ early => d.count = 0
            /\ d.threw /\ ~early => LoggedRawOnly(i)
            /\ ~d.threw => /\ HeaderRendersMissing(d)
                           /\ EntriesRenderMissing(d)
                           /\ d.count \in {1, 2}

\* A run on a batch whose second entry has no new and whose first is
\* unchanged: it threw after logging the raw object.
C6_Witness ==
    \E i \in MalformedRuns :
        /\ deliveries[i].event.detail.resize_info.t = "array"
        /\ Len(Infos(i)) = 2
        /\ Infos(i)[1].new = Str(s_unchanged)
        /\ Infos(i)[2].new = Undefined
        /\ deliveries[i].threw
        /\ LoggedRawOnly(i)

\* ------------------------------------------------------------------------
\* The console entries of a run, and the label of an event type.

Segment(i) ==
    SubSeq(console, deliveries[i].first,
           deliveries[i].first + deliveries[i].count - 1)

RECURSIVE EntriesBefore(_)
EntriesBefore(i) ==
    IF i = 1 THEN 0 ELSE EntriesBefore(i - 1) + deliveries[i - 1].count

LabelOf(type) ==
    IF type = "aspectratioresizer.resize_info"
    THEN <<"A", "s", "p", "e", "c", "t", " ", "R", "a", "t", "i", "o", " ",
           "R", "e", "s", "i", "z", "e", "r", ":">>
    ELSE <<"A", "u", "t", "o", " ", "M", "e", "g", "a", "p", "i", "x", "e",
           "l", " ", "R", "e", "d", "u", "c", "e", "r", ":">>

\* The console is the runs' entries one run after another, and nothing else.
ConsoleIsTheRuns ==
    /\ \A i \in 1..Len(deliveries) :
           deliveries[i].first = EntriesBefore(i) + 1
    /\ Len(console) = EntriesBefore(Len(deliveries) + 1)

\* The entries of a run on a well-formed event: the raw object under the
\* label of the event's own handler, then at most the message.
RawThenMessage(i) ==
    LET d == deliveries[i]
    IN  /\ d.count \in {1, 2}
        /\ Segment(i)[1] = <<Str(LabelOf(d.event.type)), Obj(d.event.detail)>>
        /\ d.count = 2 =>
               /\ Len(Segment(i)[2]) = 1
               /\ Segment(i)[2][1].t = "string"
               /\ IsPrefix(IF d.event.type = ResizeInfoType THEN s_ARRTitle
                           ELSE s_AMRTitle, Segment(i)[2][1].v)

\* C9: each delivered well-formed event produces exactly one raw-object log
\* entry with its own handler's label, before its message if there is one,
\* and at most two entries; what an event produces depends on its payload
\* alone, not on the events before it; and each dispatch to the registered
\* listeners is one run.
C9_OneRawEntryPerEvent ==
    /\ [](/\ ConsoleIsTheRuns
          /\ \A i \in WellFormedRuns : RawThenMessage(i)
          /\ \A i, j \in WellFormedRuns :
                 deliveries[i].event = deliveries[j].event
                     => Segment(i) = Segment(j))
    /\ [][listeners = Registered /\ queue' # queue /\ Len(queue') < Len(queue)
             => /\ Len(deliveries') = Len(deliveries) + 1
                /\ deliveries'[Len(deliveries')].event = Head(queue)]_vars

\* An unchanged batch of one handler, then a resized batch of the other:
\* three console entries.
C9_Witness ==
    /\ Len(deliveries) = 2
    /\ Len(console) = 3
    /\ deliveries[1].event.type = MegapixelType
    /\ deliveries[2].event.type = ResizeInfoType
    /\ WellFormedRuns = {1, 2}
    /\ deliveries[1].count = 1
    /\ deliveries[2].count = 2

\* ------------------------------------------------------------------------
\* The invocation of a wrapped hook.

Decorated == {"AspectRatioResizer", "AutoMegapixelReducer"}

IsWrapper(hook) == hook.t = "function" /\ hook.v.kind = "wrapper"

\* The last invocation called a wrapped hook.
WrappedCall == lastCall.node # 0 /\ IsWrapper(lastCall.hook)

\* The node the last invocation was made on, as it is now and as it was.
CalledNode == nodes[lastCall.node]
NodeBefore == lastCall.before[lastCall.node]

\* The hook that was on the prototype when the called wrapper was made.
PreExisting == lastCall.hook.v.onNodeCreated

Letters(text) == [t |-> "string", v |-> text]

\* The node carries the title and colours of its type.
HasOwnStyle(node) ==
    /\ node.type = "AspectRatioResizer" =>
           /\ node.title = Letters(<<"A", "s", "p", "e", "c", "t", " ", "R",
                                     "a", "t", "i", "o", " ", "R", "e", "s",
                                     "i", "z", "e", "r">>)
           /\ node.color = Letters(<<"#", "2", "a", "4", "d", "3", "a">>)
           /\ node.bgcolor = Letters(<<"#", "3", "3", "5", "5", "4", "4">>)
    /\ node.type = "AutoMegapixelReducer" =>
           /\ node.title = Letters(<<"A", "u", "t", "o", " ", "M", "e", "g",
                                     "a", "p", "i", "x", "e", "l", " ", "R",
                                     "e", "d", "u", "c", "e", "r">>)
           /\ node.color = Letters(<<"#", "4", "d", "2", "a", "3", "a">>)
           /\ node.bgcolor = Letters(<<"#", "5", "5", "3", "3", "4", "4">>)
    /\ node.type \in Decorated

\* C4: after the wrapped onNodeCreated of a decorated node type returns, the
\* node's title, color and bgcolor are those of its type, on every
\* instantiation and every repeated invocation, whatever the pre-existing
\* hook assigned to them.
C4_StyleAfterReturn == WrappedCall /\ ~lastCall.threw => HasOwnStyle(CalledNode)

\* A repeated invocation on a node that already had its style, through a
\* pre-existing hook that assigned its own title and colours.
C4_Witness ==
    /\ WrappedCall /\ ~lastCall.threw
    /\ HasOwnStyle(NodeBefore)
    /\ PreExisting = HostFunction
    /\ Len(lastCall.calls) = 2
    /\ CalledNode.type = "AutoMegapixelReducer"

\* C5: the wrapped onNodeCreated calls the pre-existing hook exactly once,
\* with its own receiver and arguments, and returns what that call returned;
\* without a pre-existing hook it calls nothing, returns undefined and
\* still applies the decoration.
C5_ReturnsHookResult ==
    WrappedCall /\ ~lastCall.threw =>
        LET inner == {n \in 1..Len(lastCall.calls) :
                         lastCall.calls[n].fn = PreExisting}
        IN  /\ lastCall.calls[1].fn = lastCall.hook
            /\ PreExisting.t = "function" =>
                   /\ inner = {2} /\ Len(lastCall.calls) = 2
                   /\ lastCall.calls[2].this = lastCall.node
                   /\ lastCall.calls[2].arguments = lastCall.arguments
                   /\ lastCall.result = lastCall.calls[2].result
                   /\ lastCall.result =
                          (IF lastCall.arguments = <<>> THEN Bool(TRUE)
                           ELSE lastCall.arguments[1])
            /\ PreExisting.t \in {"undefined", "null"} =>
                   /\ Len(lastCall.calls) = 1
                   /\ lastCall.result = Undefined
                   /\ HasOwnStyle(CalledNode)

\* An invocation with an argument, which the pre-existing hook returned.
C5_Witness ==
    /\ WrappedCall /\ ~lastCall.threw
    /\ PreExisting = HostFunction
    /\ lastCall.arguments # <<>>
    /\ lastCall.result = lastCall.arguments[1]

C10_OnlyOwnType ==
    /\ [][\A name \in NodeTypes :
              /\ name \notin Decorated => proto'[name] = proto[name]
              /\ proto'[name] # proto[name] =>
                     /\ registered' = registered \cup {name}
                     /\ name \notin registered
                     /\ IsWrapper(proto'[name])
                     /\ proto'[name].v.onNodeCreated = proto[name]
                     /\ proto'[name].v.name = name]_vars
    /\ [](\A name \in NodeTypes :
              /\ IsWrapper(proto[name]) <=>
                     name \in registered \cap Decorated
              /\ IsWrapper(proto[name]) => proto[name].v.name = name)
    /\ [](WrappedCall => lastCall.hook.v.name = CalledNode.type)

\* All three definitions registered: the other type's hook is the host's,
\* and a node of a decorated type was given its own style.
C10_Witness ==
    /\ registered = NodeTypes
    /\ proto["KSampler"] = HostFunction
    /\ IsWrapper(proto["AspectRatioResizer"])
    /\ IsWrapper(proto["AutoMegapixelReducer"])
    /\ WrappedCall /\ ~lastCall.threw
    /\ HasOwnStyle(CalledNode)
====
